---- MODULE Spec2Model ----
\* IRIS model backend: the few-shot eye-disease classifier served over HTTP.
\* Two application modules exist in the repository: model_backend/backend.py
\* (module-level load, complete predict handler) and model_backend/app/main.py
\* (startup-hook load, predict handler that uses names it never assigns).
EXTENDS Integers, Sequences, FiniteSets, TLC

VARIABLES
    variant,             \* which application module the process runs: "backend" | "main"
    encoder_file,        \* the encoder artifact on disk: "ok" | "missing" | "corrupt"
    support_file,        \* the support-set artifact on disk (status, features, labels)
    phase,               \* "import" | "load_support" | "serving" | "aborted"
    model,               \* global `model`: "unset" or the loaded encoder
    support_embeddings,  \* global support_embeddings / support_features (<<>> while unset)
    support_labels,      \* global support_labels (<<>> while unset)
    defined,             \* the global names that have been assigned
    loads,               \* how many times the load step has run to completion
    req,                 \* per request slot: the request-local state of a handler
    call                 \* the last direct call of a pure routine (classifier, resolver)

vars == <<variant, encoder_file, support_file, phase, model, support_embeddings,
          support_labels, defined, loads, req, call>>

server_vars == <<variant, encoder_file, support_file, phase, model, support_embeddings,
                 support_labels, defined, loads, req>>

-----------------------------------------------------------------------------
\* Bounds of the model.

\* largest number of rows of a support set handed to the classifier directly
MaxN == 3
\* number of request slots (requests in flight at the same time)
MaxReq == 2
\* largest positive scaling constant tried on a support embedding
MaxScale == 3
\* class indices handed to the metadata resolver range over -1..MaxIdx
MaxIdx == 3

-----------------------------------------------------------------------------
\* Embeddings: integer vectors, so that cosine similarities compare exactly.

\* the zero vector, a parallel pair, an opposite, an orthogonal and two oblique vectors
Vecs == { <<0, 0>>, <<1, 0>>, <<2, 0>>, <<0, 1>>, <<-1, 0>>, <<1, 2>>, <<-1, 1>> }

RECURSIVE SeqsUpTo(_, _)
SeqsUpTo(S, n) ==
    IF n = 0 THEN { <<>> }
    ELSE LET shorter == SeqsUpTo(S, n - 1)
         IN  shorter \cup { Append(s, x) : s \in { t \in shorter : Len(t) = n - 1 }, x \in S }

SupportSets == { S \in SeqsUpTo(Vecs, MaxN) : Len(S) >= 1 }

RECURSIVE DotUpTo(_, _, _)
DotUpTo(u, v, k) == IF k = 0 THEN 0 ELSE DotUpTo(u, v, k - 1) + u[k] * v[k]

Dot(u, v) == DotUpTo(u, v, Len(u))

\* squared L2 norm of a row, a zero norm replaced by 1 as sklearn's normalize does
\* before dividing (so a zero row stays zero and its similarities are 0)
Norm2(u) == IF Dot(u, u) = 0 THEN 1 ELSE Dot(u, u)

\* A similarity is the real number num / sqrt(den2), den2 >= 1.
Sim(u, v) == [num |-> Dot(u, v), den2 |-> Norm2(u) * Norm2(v)]

SignedSq(x) == IF x >= 0 THEN x * x ELSE -(x * x)

\* a < b, a = b and a = 1.0 on similarities, exactly
SimLess(a, b) == SignedSq(a.num) * b.den2 < SignedSq(b.num) * a.den2
SimEq(a, b) == SignedSq(a.num) * b.den2 = SignedSq(b.num) * a.den2
SimIsOne(a) == a.num > 0 /\ a.num * a.num = a.den2

\* cosine_similarity(X, Y) without the normalisation of Y's rows (a dot product
\* against the raw support rows)
cosine_similarity_raw(X, Y) ==
    [i \in 1..Len(X) |-> [j \in 1..Len(Y) |-> [num |-> Dot(X[i], Y[j]), den2 |-> Norm2(X[i])]]]

\* sklearn.metrics.pairwise.cosine_similarity(X, Y): the matrix of the
\* similarities of X's rows against Y's rows
cosine_similarity(X, Y) ==
    [i \in 1..Len(X) |-> [j \in 1..Len(Y) |-> Sim(X[i], Y[j])]]

\* a scan that moves to a later entry on a tie (>= where numpy has >)
RECURSIVE ArgmaxScan_ties_move(_, _, _)
ArgmaxScan_ties_move(row, k, best) ==
    IF k > Len(row) THEN best - 1
    ELSE ArgmaxScan_ties_move(row, k + 1, IF SimLess(row[k], row[best]) THEN best ELSE k)

\* numpy's argmax scan over a row: 0-based position of the first maximum
RECURSIVE ArgmaxScan(_, _, _)
ArgmaxScan(row, k, best) ==
    IF k > Len(row) THEN best - 1
    ELSE ArgmaxScan(row, k + 1, IF SimLess(row[best], row[k]) THEN k ELSE best)

\* an arg-max that keeps the last maximum instead of the first
argmax_last(similarities) ==
    LET row == similarities[1]
    IN  (CHOOSE k \in 1..Len(row) :
            /\ \A j \in 1..Len(row) : ~SimLess(row[k], row[j])
            /\ \A j \in (k + 1)..Len(row) : SimLess(row[j], row[k])) - 1

\* similarities.argmax() on the [1, N] matrix (flattened: its only row)
argmax(similarities) == ArgmaxScan(similarities[1], 2, 1)

\* backend.py predict, lines 39-46: the nearest-neighbour step on an embedding
Classify(predicted_embedding, support_embeddings_np) ==
    LET similarities == cosine_similarity(<<predicted_embedding>>, support_embeddings_np)
        predicted_class_id == argmax(similarities)
    IN  [predicted_class_id |-> predicted_class_id, similarities |-> similarities]

\* support set S with row j (1-based) multiplied by the constant c
Scaled(S, j, c) == [S EXCEPT ![j] = [k \in 1..Len(S[j]) |-> c * S[j][k]]]

-----------------------------------------------------------------------------
\* Metadata resolver (app/main.py, lines 70-92).

\* calculate_severity: a constant
calculate_severity(features, class_idx) == "moderate"

\* the dict literal of get_diagnosis_text
diagnoses ==
    (0 :> "Cataract detected. This is characterized by clouding of the eye's lens...")
    @@ (1 :> "Healthy eye. No significant issues detected...")

\* the dict literal of get_recommendations
recommendations ==
    (0 :> << [recommendation |-> "Schedule an appointment with an ophthalmologist", priority |-> 1],
             [recommendation |-> "Avoid driving at night", priority |-> 2] >>)

\* a lookup by subscript, diagnoses[class_idx], which raises KeyError on a miss
get_diagnosis_text_subscript(class_idx) ==
    IF class_idx \in DOMAIN diagnoses THEN diagnoses[class_idx] ELSE "KeyError"

\* diagnoses.get(class_idx, "Unknown condition")
get_diagnosis_text(class_idx) ==
    IF class_idx \in DOMAIN diagnoses THEN diagnoses[class_idx] ELSE "Unknown condition"

\* recommendations.get(class_idx, [])
get_recommendations(class_idx) ==
    IF class_idx \in DOMAIN recommendations THEN recommendations[class_idx] ELSE <<>>

ClassIdxs == -1..MaxIdx

-----------------------------------------------------------------------------
\* Direct calls of the pure routines, on inputs drawn from the bounded sets.

NoCall == [op |-> "none"]

CallClassify ==
    /\ call = NoCall
    /\ \E q \in Vecs, S \in SupportSets :
          call' = [op |-> "classify", q |-> q, S |-> S, out |-> Classify(q, S)]
    /\ UNCHANGED server_vars

CallResolve ==
    /\ call = NoCall
    /\ \E class_idx \in ClassIdxs :
          call' = [op |-> "resolve", class_idx |-> class_idx,
                   severity |-> calculate_severity(<<>>, class_idx),
                   diagnosis |-> get_diagnosis_text(class_idx),
                   recommendations |-> get_recommendations(class_idx)]
    /\ UNCHANGED server_vars

-----------------------------------------------------------------------------
\* The artifacts on disk and the uploads.

\* backend.py lines 17-20: the labels are a literal of the module
HardcodedLabels ==
    << "cataract", "healthy", "pterygium", "glaucoma", "keratoconus", "strabismus",
       "pink_eye", "stye", "trachoma", "uveitis" >>

\* support sets found in the support-set artifact: two rows; three rows, two of
\* them parallel; eleven rows, one more than backend.py has labels for
DeployedSupportSets ==
    { << <<1, 0>>, <<1, 2>> >>,
      << <<1, 0>>, <<2, 0>>, <<0, 1>> >>,
      [i \in 1..(Len(HardcodedLabels) + 1) |->
          IF i = Len(HardcodedLabels) + 1 THEN <<-1, 1>>
          ELSE IF i % 2 = 1 THEN <<1, 0>> ELSE <<1, 2>>] }

\* the labels stored beside the features in support_set.pkl, one per row
LabelsOf(features) ==
    [i \in 1..Len(features) |->
        IF i <= Len(HardcodedLabels) THEN HardcodedLabels[i] ELSE "class_extra"]

SupportFiles ==
    { [status |-> "ok", features |-> S, labels |-> LabelsOf(S)] : S \in DeployedSupportSets }
    \cup { [status |-> st, features |-> <<>>, labels |-> <<>>] : st \in {"missing", "corrupt"} }
    \cup { [status |-> "no_labels", features |-> S, labels |-> <<>>] : S \in DeployedSupportSets }

\* upload payloads: the empty payload, bytes that are no image, three images
Images == {"imgA", "imgB", "imgC"}
Uploads == {"", "junk"} \cup Images

\* the traced encoder as a function of the decoded image
Encoder(image) ==
    CASE image = "imgA" -> <<1, 0>>
      [] image = "imgB" -> <<1, 2>>
      [] image = "imgC" -> <<-1, 1>>

GlobalNames == {"model", "support_embeddings", "support_labels"}

Slots == 1..MaxReq

-----------------------------------------------------------------------------
\* Responses.

EmptyBody == [status |-> "", predicted_class_id |-> -1, predicted_class_label |-> "", error |-> ""]

NoResp == [code |-> 0, exc |-> "", body |-> EmptyBody]

\* an exception that leaves the handler: nothing in the handlers catches it, and
\* the framework answers 500 "Internal Server Error"
Unhandled(exc) ==
    [code |-> 500, exc |-> exc, body |-> [EmptyBody EXCEPT !.error = "Internal Server Error"]]

\* backend.py lines 56-59
JSONResponse(predicted_class_id, predicted_class_label) ==
    [code |-> 200, exc |-> "",
     body |-> [EmptyBody EXCEPT !.predicted_class_id = predicted_class_id,
                                !.predicted_class_label = predicted_class_label]]

\* a health check that reports on the requests in flight
health_check_degraded ==
    IF \E s \in Slots : req[s].resp.code >= 500
    THEN [code |-> 200, exc |-> "", body |-> [EmptyBody EXCEPT !.status = "degraded"]]
    ELSE [code |-> 200, exc |-> "", body |-> [EmptyBody EXCEPT !.status = "ok"]]

\* app/main.py lines 66-68
health_check == [code |-> 200, exc |-> "", body |-> [EmptyBody EXCEPT !.status = "ok"]]

\* the process-wide names a handler reads
Globals ==
    [defined |-> defined, model |-> model,
     support_embeddings |-> support_embeddings, support_labels |-> support_labels]

\* backend.py predict, after `await file.read()` (lines 32-59)
predict_backend(image_bytes, g) ==
    IF image_bytes \notin Images THEN Unhandled("UnidentifiedImageError")
    ELSE IF "model" \notin g.defined \/ "support_embeddings" \notin g.defined
    THEN Unhandled("NameError")
    ELSE LET features == Encoder(image_bytes)
             r == Classify(features, g.support_embeddings)
             predicted_class_id == r.predicted_class_id
         IN  IF "support_labels" \notin g.defined THEN Unhandled("NameError")
             ELSE IF predicted_class_id + 1 > Len(g.support_labels)
             THEN Unhandled("IndexError")
             ELSE JSONResponse(predicted_class_id, g.support_labels[predicted_class_id + 1])

\* app/main.py predict, after `await file.read()` (lines 40-63): line 47 reads
\* image_tensor, a name no line of the module assigns
predict_main(image_data, g) ==
    IF image_data \notin Images THEN Unhandled("UnidentifiedImageError")
    ELSE Unhandled("NameError")

-----------------------------------------------------------------------------
\* The serving process.

IdleReq == [pc |-> "idle", kind |-> "none", upload |-> "", resp |-> NoResp]

Init ==
    /\ variant \in {"backend", "main"}
    /\ encoder_file \in {"ok", "missing", "corrupt"}
    /\ support_file \in SupportFiles
    /\ (support_file.status = "no_labels" => variant = "main")
    /\ phase = "load_encoder"
    /\ model = "unset"
    /\ support_embeddings = <<>>
    /\ support_labels = <<>>
    /\ defined = {}
    /\ loads = 0
    /\ req = [s \in Slots |-> IdleReq]
    /\ call = NoCall

\* backend.py lines 12-13 at import, app/main.py lines 27-28 in the startup hook:
\* torch.jit.load raises on a missing or unreadable artifact, and nothing catches it
LoadEncoder ==
    /\ phase = "load_encoder"
    /\ IF encoder_file = "ok"
       THEN /\ model' = "densenet121"
            /\ defined' = defined \cup {"model"}
            /\ phase' = "load_support"
       ELSE /\ phase' = "aborted"
            /\ UNCHANGED <<model, defined>>
    /\ UNCHANGED <<variant, encoder_file, support_file, support_embeddings, support_labels,
                   loads, req, call>>

\* a load of the support set that logs a failure and lets the process serve
LoadSupport_swallow ==
    /\ phase = "load_support"
    /\ phase' = "serving"
    /\ loads' = loads + 1
    /\ IF support_file.status = "ok"
       THEN /\ support_embeddings' = support_file.features
            /\ support_labels' = IF variant = "backend" THEN HardcodedLabels
                                 ELSE support_file.labels
            /\ defined' = defined \cup {"support_embeddings", "support_labels"}
       ELSE UNCHANGED <<support_embeddings, support_labels, defined>>
    /\ UNCHANGED <<variant, encoder_file, support_file, model, req, call>>

\* backend.py lines 16-20 at import (torch.load, then the label literal);
\* app/main.py lines 31-34 in the startup hook (open, pickle.load, the two keys)
LoadSupport ==
    /\ phase = "load_support"
    /\ CASE support_file.status = "ok" ->
              /\ support_embeddings' = support_file.features
              /\ support_labels' = IF variant = "backend" THEN HardcodedLabels
                                   ELSE support_file.labels
              /\ defined' = defined \cup {"support_embeddings", "support_labels"}
              /\ phase' = "serving"
              /\ loads' = loads + 1
         [] support_file.status = "no_labels" ->
              \* line 33 has assigned support_features when line 34 raises KeyError
              /\ support_embeddings' = support_file.features
              /\ defined' = defined \cup {"support_embeddings"}
              /\ phase' = "aborted"
              /\ UNCHANGED <<support_labels, loads>>
         [] OTHER ->
              /\ phase' = "aborted"
              /\ UNCHANGED <<support_embeddings, support_labels, defined, loads>>
    /\ UNCHANGED <<variant, encoder_file, support_file, model, req, call>>

\* a server that hands requests to the application before its startup is over
ReceivePredict_during_startup(s) ==
    /\ phase \in {"load_encoder", "load_support", "serving"}
    /\ req[s].pc = "idle"
    /\ \E upload \in Uploads :
          req' = [req EXCEPT ![s] = [pc |-> "read", kind |-> "predict",
                                     upload |-> upload, resp |-> NoResp]]
    /\ UNCHANGED <<variant, encoder_file, support_file, phase, model, support_embeddings,
                   support_labels, defined, loads, call>>

\* POST /predict/ reaches the handler, which suspends in `await file.read()`
\* (backend.py lines 28-31, app/main.py lines 36-39); the server routes requests
\* once the import and the startup hooks are over
ReceivePredict(s) ==
    /\ phase = "serving"
    /\ req[s].pc = "idle"
    /\ \E upload \in Uploads :
          req' = [req EXCEPT ![s] = [pc |-> "read", kind |-> "predict",
                                     upload |-> upload, resp |-> NoResp]]
    /\ UNCHANGED <<variant, encoder_file, support_file, phase, model, support_embeddings,
                   support_labels, defined, loads, call>>

\* the response of the predict handler of the running module
predict(image_bytes, g) ==
    IF variant = "backend" THEN predict_backend(image_bytes, g) ELSE predict_main(image_bytes, g)

\* a handler that stores the query embedding as the new reference of its class
Predict_updates_support(s) ==
    /\ req[s].pc = "read"
    /\ LET resp == predict(req[s].upload, Globals)
       IN  /\ req' = [req EXCEPT ![s].pc = "done", ![s].resp = resp]
           /\ support_embeddings' =
                 IF resp.code = 200
                 THEN [support_embeddings EXCEPT
                          ![resp.body.predicted_class_id + 1] = Encoder(req[s].upload)]
                 ELSE support_embeddings
    /\ UNCHANGED <<variant, encoder_file, support_file, phase, model,
                   support_labels, defined, loads, call>>

\* the rest of the predict handler, run without suspension (backend.py lines
\* 32-59, app/main.py lines 40-63)
Predict(s) ==
    /\ req[s].pc = "read"
    /\ req' = [req EXCEPT ![s].pc = "done", ![s].resp = predict(req[s].upload, Globals)]
    /\ UNCHANGED <<variant, encoder_file, support_file, phase, model, support_embeddings,
                   support_labels, defined, loads, call>>

\* GET /health (app/main.py lines 65-68)
HealthCheck(s) ==
    /\ phase = "serving"
    /\ variant = "main"
    /\ req[s].pc = "idle"
    /\ req' = [req EXCEPT ![s] = [pc |-> "done", kind |-> "health",
                                  upload |-> "", resp |-> health_check]]
    /\ UNCHANGED <<variant, encoder_file, support_file, phase, model, support_embeddings,
                   support_labels, defined, loads, call>>

\* the response has been sent: the request-local state is gone
Reply(s) ==
    /\ req[s].pc = "done"
    /\ req' = [req EXCEPT ![s] = IdleReq]
    /\ UNCHANGED <<variant, encoder_file, support_file, phase, model, support_embeddings,
                   support_labels, defined, loads, call>>

Next ==
    \/ LoadEncoder
    \/ LoadSupport
    \/ \E s \in Slots : ReceivePredict(s)
    \/ \E s \in Slots : Predict(s)
    \/ \E s \in Slots : HealthCheck(s)
    \/ \E s \in Slots : Reply(s)

Spec == Init /\ [][Next]_vars

\* The pure routines called directly.

InitFn ==
    /\ variant = "backend"
    /\ encoder_file = "ok"
    /\ support_file = [status |-> "missing", features |-> <<>>, labels |-> <<>>]
    /\ phase = "load_encoder"
    /\ model = "unset"
    /\ support_embeddings = <<>>
    /\ support_labels = <<>>
    /\ defined = {}
    /\ loads = 0
    /\ req = [s \in Slots |-> IdleReq]
    /\ call = NoCall

\* the call has returned: the next one starts afresh
CallReturn ==
    /\ call # NoCall
    /\ call' = NoCall
    /\ UNCHANGED server_vars

NextFn == CallClassify \/ CallResolve \/ CallReturn

SpecFn == InitFn /\ [][NextFn]_vars

-----------------------------------------------------------------------------
\* Properties of the serving process (specification Spec).

DonePredict(s) == req[s].pc = "done" /\ req[s].kind = "predict"

\* the process-wide state a complete startup produces from the artifacts on disk
StartupGlobals ==
    [defined |-> GlobalNames, model |-> "densenet121",
     support_embeddings |-> support_file.features,
     support_labels |-> IF variant = "backend" THEN HardcodedLabels ELSE support_file.labels]

\* C1: every valid image upload handled by POST /predict/ is answered with a
\* class id in [0, N), N the number of support-set entries, and with the label
\* stored at that index; the request fails neither on the index lookup nor on an
\* undefined value.
C1_ValidImageClassified ==
    \A s \in Slots :
        (DonePredict(s) /\ req[s].upload \in Images) =>
            /\ req[s].resp.code = 200
            /\ req[s].resp.body.predicted_class_id \in 0..(Len(support_embeddings) - 1)
            /\ req[s].resp.body.predicted_class_id + 1 \in DOMAIN support_labels
            /\ req[s].resp.body.predicted_class_label =
                  support_labels[req[s].resp.body.predicted_class_id + 1]

\* C2: an upload that is no valid image ends in a structured 4xx decode-error
\* response, and the process keeps serving.
C2_DecodeErrorIs4xx ==
    \A s \in Slots :
        (DonePredict(s) /\ req[s].upload \notin Images) =>
            /\ req[s].resp.code \in 400..499
            /\ phase = "serving"

C4_BadArtifactNeverServes ==
    (encoder_file # "ok" \/ support_file.status # "ok") =>
        /\ phase # "serving"
        /\ \A s \in Slots : req[s] = IdleReq

C4_Witness ==
    /\ phase = "aborted"
    /\ "model" \in defined
    /\ "support_labels" \notin defined

\* C5: once startup is over every answer of GET /health is exactly
\* {"status": "ok"}, whatever the other requests did.
C5_HealthAlwaysOk ==
    \A s \in Slots :
        (req[s].pc = "done" /\ req[s].kind = "health") =>
            /\ req[s].resp.code = 200
            /\ req[s].resp.body.status = "ok"
            /\ req[s].resp.body.error = ""

C5_Witness ==
    \E s, t \in Slots :
        /\ req[s].pc = "done" /\ req[s].kind = "health"
        /\ DonePredict(t) /\ req[t].resp.code = 500

\* C10: handling a request leaves the loaded encoder, the support embeddings
\* and the support labels as startup left them, and every predict response,
\* under any interleaving, is the one the request gets alone on the startup state.
C10_RequestsLeaveStateAlone ==
    /\ [][phase = "serving" =>
            UNCHANGED <<model, support_embeddings, support_labels, defined>>]_vars
    /\ [](\A s \in Slots :
            DonePredict(s) => req[s].resp = predict(req[s].upload, StartupGlobals))

C10_Witness ==
    \E s, t \in Slots :
        /\ s # t
        /\ DonePredict(s) /\ req[s].resp.code = 200
        /\ DonePredict(t) /\ req[t].resp.code = 200
        /\ req[s].upload # req[t].upload

-----------------------------------------------------------------------------
\* Properties of the pure routines (specification SpecFn).

IsZero(u) == \A k \in 1..Len(u) : u[k] = 0

\* u is a positive multiple of v (the components of Vecs are at most 2 in size,
\* so the factors 1 and 2 cover every such pair)
PositiveMultiple(u, v) ==
    \E a, b \in 1..2 : \A k \in 1..Len(u) : a * u[k] = b * v[k]

Classified == call.op = "classify"

\* C6: the resolver returns the table entry of an index that has one and the
\* default otherwise: "Unknown condition" and the empty recommendation list for
\* an index in neither table.
C6_ResolverDefaults ==
    call.op = "resolve" =>
        /\ call.class_idx = 0 =>
              /\ call.diagnosis =
                    "Cataract detected. This is characterized by clouding of the eye's lens..."
              /\ Len(call.recommendations) = 2
              /\ call.recommendations[1].priority = 1
              /\ call.recommendations[2].recommendation = "Avoid driving at night"
        /\ call.class_idx = 1 =>
              /\ call.diagnosis = "Healthy eye. No significant issues detected..."
              /\ call.recommendations = <<>>
        /\ call.class_idx \notin {0, 1} =>
              /\ call.diagnosis = "Unknown condition"
              /\ call.recommendations = <<>>

C6_Witness ==
    /\ call.op = "resolve"
    /\ call.class_idx \notin {0, 1}
    /\ call.diagnosis = "Unknown condition"

\* C7 as claimed: a query equal to support embedding i is classified as index i
\* with similarity 1.0, for every support set and every i.
C7_IdenticalReturnsSameIndex ==
    Classified =>
        \A i \in 1..Len(call.S) :
            call.S[i] = call.q =>
                /\ call.out.predicted_class_id = i - 1
                /\ SimIsOne(call.out.similarities[1][i])

\* C7 amended: a query equal to a non-zero support embedding i is classified
\* with similarity 1.0 as the lowest index whose embedding is a positive
\* multiple of embedding i (index i itself when no earlier entry is one).
C7_IdenticalReturnsFirstParallel ==
    Classified =>
        \A i \in 1..Len(call.S) :
            (call.S[i] = call.q /\ ~IsZero(call.q)) =>
                LET id == call.out.predicted_class_id + 1
                IN  /\ id \in 1..i
                    /\ PositiveMultiple(call.S[id], call.q)
                    /\ \A j \in 1..(id - 1) : ~PositiveMultiple(call.S[j], call.q)
                    /\ SimIsOne(call.out.similarities[1][id])
                    /\ ((\A j \in 1..(i - 1) : ~PositiveMultiple(call.S[j], call.q)) => id = i)

C7_Witness ==
    /\ Classified
    /\ \E i \in 1..Len(call.S) :
          /\ call.S[i] = call.q
          /\ ~IsZero(call.q)
          /\ call.out.predicted_class_id + 1 < i
          /\ call.S[call.out.predicted_class_id + 1] # call.q

\* C8: the returned index has the maximum cosine similarity to the query over
\* all support entries, and is the lowest index that has it.
C8_ArgmaxFirstMaximum ==
    Classified =>
        LET id == call.out.predicted_class_id + 1
        IN  /\ id \in 1..Len(call.S)
            /\ \A j \in 1..Len(call.S) :
                  ~SimLess(Sim(call.q, call.S[id]), Sim(call.q, call.S[j]))
            /\ \A j \in 1..(id - 1) :
                  SimLess(Sim(call.q, call.S[j]), Sim(call.q, call.S[id]))

C8_Witness ==
    /\ Classified
    /\ LET id == call.out.predicted_class_id + 1
       IN  /\ id > 1
           /\ \E j \in (id + 1)..Len(call.S) :
                 /\ call.S[j] # call.S[id]
                 /\ SimEq(Sim(call.q, call.S[j]), Sim(call.q, call.S[id]))

\* C9: multiplying one support embedding by a positive constant leaves the
\* returned index unchanged.
C9_ScaleInvariant ==
    Classified =>
        \A j \in 1..Len(call.S), c \in 1..MaxScale :
            Classify(call.q, Scaled(call.S, j, c)).predicted_class_id
                = call.out.predicted_class_id

\* a call where the dot products against the scaled rows alone would pick another index
C9_Witness ==
    /\ Classified
    /\ \E j \in 1..Len(call.S), c \in 2..MaxScale :
          LET S2 == Scaled(call.S, j, c)
              dots == [k \in 1..Len(S2) |-> Dot(call.q, S2[k])]
          IN  /\ j # call.out.predicted_class_id + 1
              /\ \A k \in 1..Len(S2) : k # j => dots[k] < dots[j]

====
